---- MODULE Spec2Model ----
(***************************************************************************)
(* Model of webviz_config/certificate/_certificate_generator.py:           *)
(* create_key, certificate_template, create_ca and create_certificate,     *)
(* run one call at a time by a single operator against the four files      *)
(* ca.key, ca.crt (user data directory) and server.key, server.crt         *)
(* (output directory).                                                     *)
(*                                                                         *)
(* A private key is a natural number (its modulus); the n-th key that      *)
(* rsa.generate_private_key returns is n, so every generated key differs   *)
(* from all earlier ones.  A file is a record: whether it exists, the PEM  *)
(* label of its content, whether the PEM text is complete, and the         *)
(* encoded object.  The random serial number of a certificate is left out. *)
(***************************************************************************)
EXTENDS Integers, FiniteSets, TLC

\* ---------------------------------------------------------------- bounds
MaxKeys == 3
MaxClock == 1

\* ------------------------------------------------------------- constants
public_exponent == 65537
CA_VALID_DAYS == 365 * 10
SERVER_VALID_DAYS == 7

NAME ==
    [C |-> "NO", L |-> "Trondheim", O |-> "Webviz", CN |-> "user", OU |-> "Webviz"]

NoName ==
    [C |-> "", L |-> "", O |-> "", CN |-> "", OU |-> ""]

CA_KEY_FILENAME == "ca.key"
CA_CRT_FILENAME == "ca.crt"
SERVER_KEY_FILENAME == "server.key"
SERVER_CRT_FILENAME == "server.crt"

NoKey == 0

VARIABLES
    ca_key_file,      \* user_data_dir() / "ca.key"
    ca_crt_file,      \* user_data_dir() / "ca.crt"
    server_key_file,  \* directory / "server.key"
    server_crt_file,  \* directory / "server.crt"
    nkeys,            \* number of keys generated so far
    now,              \* datetime.datetime.utcnow(), in seconds
    pc,               \* position of the running call, "idle" between calls
    op,               \* the call made last
    args,             \* args of the last create_ca call
    existed,          \* ca.key and ca.crt as the last create_ca call found them
    ca_result,        \* how the last create_ca call ended
    crt_result,       \* how the last create_certificate call ended
    key,              \* the key create_key returned to the running call
    ca_key,           \* create_certificate: the loaded CA private key
    ca_crt,           \* create_certificate: the loaded CA certificate
    not_valid_after,  \* certificate_template: its local not_valid_after
    cert,             \* the signed certificate held by the running call
    installed,        \* create_ca: its local installed
    tool,             \* how the certutil subprocess of the last create_ca ended
    printed           \* what the last create_ca call printed

vars ==
    <<ca_key_file, ca_crt_file, server_key_file, server_crt_file, nkeys, now,
      pc, op, args, existed, ca_result, crt_result, key, ca_key, ca_crt,
      not_valid_after, cert, installed, tool, printed>>

files == <<ca_key_file, ca_crt_file, server_key_file, server_crt_file>>
ca_files == <<ca_key_file, ca_crt_file>>
server_files == <<server_key_file, server_crt_file>>
locals == <<key, ca_key, ca_crt, not_valid_after, cert>>
ca_out == <<installed, tool, printed>>

\* ------------------------------------------------------------ keys, x509
PublicKey(private_key) ==
    [n |-> private_key, e |-> public_exponent]

NoPublicKey ==
    [n |-> NoKey, e |-> 0]

\* rsa.generate_private_key: the next key, never returned before.
generate_private_key(n) ==
    n + 1

\* datetime.timedelta(days=...), in seconds.
timedelta(days) ==
    days * 86400

\* Mutant of NotValidAfter: the two validity lengths exchanged.
NotValidAfterSwapped(certauthority, t) ==
    IF certauthority
    THEN t + timedelta(SERVER_VALID_DAYS)
    ELSE t + timedelta(CA_VALID_DAYS)

\* certificate_template, first read of the clock (t is utcnow()).
NotValidAfter(certauthority, t) ==
    IF certauthority
    THEN t + timedelta(CA_VALID_DAYS)
    ELSE t + timedelta(SERVER_VALID_DAYS)

\* certificate_template, the builder; t is the second read of the clock.
certificate_template(subject, issuer, public_key, certauthority, nva, t) ==
    [subject |-> subject,
     issuer |-> issuer,
     public_key |-> public_key,
     not_valid_before |-> t,
     not_valid_after |-> nva,
     san |-> {"localhost"},
     basic_constraints_ca |-> certauthority,
     key_usage |-> {},
     authority_key_identifier |-> NoKey]

\* x509.KeyUsage(...) of create_certificate: the flags that are True.
ServerKeyUsage ==
    {"digital_signature", "key_encipherment", "content_commitment"}

\* x509.AuthorityKeyIdentifier.from_issuer_public_key
from_issuer_public_key(public_key) ==
    public_key.n

add_server_extensions(builder, issuer_public_key) ==
    [builder EXCEPT !.key_usage = ServerKeyUsage,
                    !.authority_key_identifier =
                        from_issuer_public_key(issuer_public_key)]

\* CertificateBuilder.sign(private_key, hashes.SHA256(), backend)
sign(builder, private_key) ==
    [tbs |-> builder, signed_by |-> private_key, algorithm |-> "SHA256"]

NoCert ==
    sign(certificate_template(NoName, NoName, NoPublicKey, FALSE, 0, 0), NoKey)

\* Signature verification of a certificate under a public key.
Verifies(c, public_key) ==
    /\ c.signed_by # NoKey
    /\ PublicKey(c.signed_by) = public_key
    /\ c.algorithm = "SHA256"

\* ------------------------------------------------------------ files, PEM
Absent(blank) ==
    [exists |-> FALSE, label |-> "", complete |-> FALSE, body |-> blank]

\* key.private_bytes(PEM, TraditionalOpenSSL, NoEncryption())
private_bytes(private_key) ==
    [exists |-> TRUE, label |-> "RSA PRIVATE KEY", complete |-> TRUE,
     body |-> private_key]

\* cert.public_bytes(serialization.Encoding.PEM)
public_bytes(c) ==
    [exists |-> TRUE, label |-> "CERTIFICATE", complete |-> TRUE, body |-> c]

\* What a write that failed part-way leaves: a prefix of the PEM text.
Truncated(data, blank) ==
    [exists |-> TRUE, label |-> data.label, complete |-> FALSE, body |-> blank]

IoOutcomes == {"ok", "open_fails", "write_fails"}

\* with open(path, "wb") as filehandle: filehandle.write(data)
\* open truncates the file; a failing open leaves it as it was.
WriteFile(old, data, blank, io) ==
    CASE io = "ok" -> data
      [] io = "open_fails" -> old
      [] io = "write_fails" -> Truncated(data, blank)

is_file(f) ==
    f.exists

\* serialization.load_pem_private_key: whether it parses, and its result.
CanLoadPrivateKey(f) ==
    f.label = "RSA PRIVATE KEY" /\ f.complete

load_pem_private_key(f) ==
    f.body

\* Mutant of CanLoadCertificate: a truncated certificate is accepted.
CanLoadCertificateLenient(f) ==
    f.label = "CERTIFICATE"

\* x509.load_pem_x509_certificate: whether it parses, and its result.
CanLoadCertificate(f) ==
    f.label = "CERTIFICATE" /\ f.complete

load_pem_x509_certificate(f) ==
    f.body

\* ------------------------------------------------------------------ Init
\* Before the first call: both directories hold none of the four files.
NoArgs == [force |-> FALSE, auto_install |-> FALSE]

Init ==
    /\ ca_key_file = Absent(NoKey)
    /\ ca_crt_file = Absent(NoCert)
    /\ nkeys = 0
    /\ server_key_file = Absent(NoKey)
    /\ server_crt_file = Absent(NoCert)
    /\ now = 0
    /\ pc = "idle"
    /\ op = "none"
    /\ args = NoArgs
    /\ existed = <<Absent(NoKey), Absent(NoCert)>>
    /\ ca_result = "none"
    /\ crt_result = "none"
    /\ key = NoKey
    /\ ca_key = NoKey
    /\ ca_crt = NoCert
    /\ not_valid_after = 0
    /\ cert = NoCert
    /\ installed = FALSE
    /\ tool = "not_run"
    /\ printed = {}

ResetLocals ==
    /\ key' = NoKey
    /\ ca_key' = NoKey
    /\ ca_crt' = NoCert
    /\ not_valid_after' = 0
    /\ cert' = NoCert

\* ------------------------------------------------------------- create_ca
\* Mutant of CaMayProceed: the "not" before args.force lost.
CaMayProceedInverted(force, f) ==
    ~(force /\ is_file(f))

\* Lines 83-96: the call, mkdir, and the check for an existing ca.crt.
CaMayProceed(force, f) ==
    ~(~force /\ is_file(f))

CreateCaBegin(force, auto_install) ==
    /\ pc = "idle"
    /\ op' = "create_ca"
    /\ args' = [force |-> force, auto_install |-> auto_install]
    /\ existed' = <<ca_key_file, ca_crt_file>>
    /\ installed' = FALSE
    /\ tool' = "not_run"
    /\ printed' = {}
    /\ IF CaMayProceed(force, ca_crt_file)
       THEN /\ nkeys < MaxKeys
            /\ pc' = "ca_create_key"
            /\ ca_result' = "running"
       ELSE /\ pc' = "idle"
            /\ ca_result' = "OSError_exists"
    /\ UNCHANGED <<files, nkeys, now, crt_result, locals>>

\* Line 98: key = create_key(ca_key_path).
CaCreateKey(io) ==
    /\ pc = "ca_create_key"
    /\ nkeys' = generate_private_key(nkeys)
    /\ ca_key_file' = WriteFile(ca_key_file, private_bytes(nkeys'), NoKey, io)
    /\ IF io = "ok"
       THEN /\ key' = nkeys'
            /\ pc' = "ca_template"
            /\ UNCHANGED ca_result
       ELSE /\ key' = NoKey
            /\ pc' = "idle"
            /\ ca_result' = "OSError_ca_key"
    /\ UNCHANGED <<ca_crt_file, server_files, now, op, args, existed,
                   crt_result, ca_key, ca_crt, not_valid_after, cert, ca_out>>

\* Lines 100-103 and 60-61: certificate_template reads the clock for
\* not_valid_after.
CaTemplate ==
    /\ pc = "ca_template"
    /\ not_valid_after' = NotValidAfter(TRUE, now)
    /\ pc' = "ca_sign"
    /\ UNCHANGED <<files, nkeys, now, op, args, existed, ca_result, crt_result,
                   key, ca_key, ca_crt, cert, ca_out>>

\* Mutant of CaCertificate: signed with the key ca.key held before the call.
CaCertificateOldKey(k, nva, t) ==
    sign(certificate_template(NAME, NAME, PublicKey(k), TRUE, nva, t),
         existed[1].body)

\* Lines 100-104: subject = issuer = NAME, the public key of the new key,
\* signed with the new key.
CaCertificate(k, nva, t) ==
    sign(certificate_template(NAME, NAME, PublicKey(k), TRUE, nva, t), k)

\* Lines 66-80 and 102-104: the builder reads the clock again, which may
\* have advanced by d, and the template is self-signed.
CaSign(d) ==
    /\ pc = "ca_sign"
    /\ now + d <= MaxClock
    /\ now' = now + d
    /\ cert' = CaCertificate(key, not_valid_after, now')
    /\ pc' = "ca_write_crt"
    /\ UNCHANGED <<files, nkeys, op, args, existed, ca_result, crt_result,
                   key, ca_key, ca_crt, not_valid_after, ca_out>>

\* Lines 106-107: the certificate is written to ca.crt.
CaWriteCrt(io) ==
    /\ pc = "ca_write_crt"
    /\ ca_crt_file' = WriteFile(ca_crt_file, public_bytes(cert), NoCert, io)
    /\ IF io = "ok"
       THEN /\ pc' = "ca_install"
            /\ UNCHANGED <<ca_result, locals>>
       ELSE /\ pc' = "idle"
            /\ ca_result' = IF io = "open_fails" THEN "OSError_ca_crt_open"
                                                 ELSE "OSError_ca_crt_write"
            /\ ResetLocals
    /\ UNCHANGED <<ca_key_file, server_files, nkeys, now, op, args, existed,
                   crt_result, ca_out>>

\* How subprocess.run(["certutil", ...], check=True) can end.
ToolOutcomes ==
    {"exit_zero", "CalledProcessError", "PermissionError", "FileNotFoundError"}

\* Line 140: except (PermissionError, subprocess.CalledProcessError).
Caught(outcome) ==
    outcome \in {"PermissionError", "CalledProcessError"}

\* Lines 109-172: the fingerprint, the optional certutil run, the messages.
CaInstall(outcome) ==
    /\ pc = "ca_install"
    /\ IF args.auto_install
       THEN /\ tool' = outcome
            /\ installed' = (outcome = "exit_zero")
            /\ IF outcome = "exit_zero"
               THEN /\ printed' = {"success"}
                    /\ ca_result' = "returned"
               ELSE IF Caught(outcome)
                    THEN /\ printed' = {"failed", "manual"}
                         /\ ca_result' = "returned"
                    ELSE /\ printed' = {}
                         /\ ca_result' = outcome
       ELSE /\ outcome = "exit_zero"
            /\ tool' = "not_run"
            /\ installed' = FALSE
            /\ printed' = {"manual"}
            /\ ca_result' = "returned"
    /\ pc' = "idle"
    /\ ResetLocals
    /\ UNCHANGED <<files, nkeys, now, op, args, existed, crt_result>>

\* ---------------------------------------------------- create_certificate
\* Mutant of CaFound: "and" for "or" in the test for the two files.
CaFoundEither(kf, cf) ==
    ~(~is_file(kf) /\ ~is_file(cf))

\* Lines 175-198: the call, the check for both CA files, and the two loads.
CaFound(kf, cf) ==
    ~(~is_file(kf) \/ ~is_file(cf))

CreateCertificateBegin ==
    /\ pc = "idle"
    /\ op' = "create_certificate"
    /\ IF ~CaFound(ca_key_file, ca_crt_file)
       THEN /\ pc' = "idle"
            /\ crt_result' = "RuntimeError_ca_not_found"
            /\ UNCHANGED <<ca_key, ca_crt>>
       ELSE IF ~CanLoadPrivateKey(ca_key_file)
       THEN /\ pc' = "idle"
            /\ crt_result' = "ValueError_ca_key"
            /\ UNCHANGED <<ca_key, ca_crt>>
       ELSE IF ~CanLoadCertificate(ca_crt_file)
       THEN /\ pc' = "idle"
            /\ crt_result' = "ValueError_ca_crt"
            /\ UNCHANGED <<ca_key, ca_crt>>
       ELSE /\ nkeys < MaxKeys
            /\ ca_key' = load_pem_private_key(ca_key_file)
            /\ ca_crt' = load_pem_x509_certificate(ca_crt_file)
            /\ pc' = "crt_create_key"
            /\ crt_result' = "running"
    /\ UNCHANGED <<files, nkeys, now, args, existed, ca_result, key,
                   not_valid_after, cert, ca_out>>

\* Line 200: server_key = create_key(server_key_path).
CrtCreateKey(io) ==
    /\ pc = "crt_create_key"
    /\ nkeys' = generate_private_key(nkeys)
    /\ server_key_file' =
          WriteFile(server_key_file, private_bytes(nkeys'), NoKey, io)
    /\ IF io = "ok"
       THEN /\ key' = nkeys'
            /\ pc' = "crt_template"
            /\ UNCHANGED <<crt_result, ca_key, ca_crt>>
       ELSE /\ key' = NoKey
            /\ ca_key' = NoKey
            /\ ca_crt' = NoCert
            /\ pc' = "idle"
            /\ crt_result' = "OSError_server_key"
    /\ UNCHANGED <<ca_files, server_crt_file, now, op, args, existed,
                   ca_result, not_valid_after, cert, ca_out>>

\* Lines 203 and 63-64: certificate_template reads the clock for
\* not_valid_after.
CrtTemplate ==
    /\ pc = "crt_template"
    /\ not_valid_after' = NotValidAfter(FALSE, now)
    /\ pc' = "crt_sign"
    /\ UNCHANGED <<files, nkeys, now, op, args, existed, ca_result, crt_result,
                   key, ca_key, ca_crt, cert, ca_out>>

\* Mutant of IssueServerCert: signed with the server key, not the CA key.
IssueServerCertSelfSigned(loaded_key, loaded_crt, server_key, nva, t) ==
    sign(add_server_extensions(
             certificate_template(NAME, loaded_crt.tbs.subject,
                                  PublicKey(server_key), FALSE, nva, t),
             PublicKey(loaded_key)),
         server_key)

\* Mutant of IssueServerCert: the CA's public key certified, not the server's.
IssueServerCertOfCaKey(loaded_key, loaded_crt, server_key, nva, t) ==
    sign(add_server_extensions(
             certificate_template(NAME, loaded_crt.tbs.subject,
                                  PublicKey(loaded_key), FALSE, nva, t),
             PublicKey(loaded_key)),
         loaded_key)

\* Lines 202-225: the builder reads the clock again, the two extensions are
\* added and the template is signed with the loaded CA key.
IssueServerCert(loaded_key, loaded_crt, server_key, nva, t) ==
    sign(add_server_extensions(
             certificate_template(NAME, loaded_crt.tbs.subject,
                                  PublicKey(server_key), FALSE, nva, t),
             PublicKey(loaded_key)),
         loaded_key)

CrtSign(d) ==
    /\ pc = "crt_sign"
    /\ now + d <= MaxClock
    /\ now' = now + d
    /\ cert' = IssueServerCert(ca_key, ca_crt, key, not_valid_after, now')
    /\ pc' = "crt_write_crt"
    /\ UNCHANGED <<files, nkeys, op, args, existed, ca_result, crt_result,
                   key, ca_key, ca_crt, not_valid_after, ca_out>>

\* Lines 227-228: the certificate is written to server.crt.
CrtWriteCrt(io) ==
    /\ pc = "crt_write_crt"
    /\ server_crt_file' =
          WriteFile(server_crt_file, public_bytes(cert), NoCert, io)
    /\ crt_result' = CASE io = "ok" -> "returned"
                       [] io = "open_fails" -> "OSError_server_crt_open"
                       [] io = "write_fails" -> "OSError_server_crt_write"
    /\ pc' = "idle"
    /\ ResetLocals
    /\ UNCHANGED <<ca_files, server_key_file, nkeys, now, op, args, existed,
                   ca_result, ca_out>>

\* ----------------------------------------------------------- environment
\* Between calls the operator may remove a CA file from the user data
\* directory; both calls test for the files with is_file() for that reason.
OperatorRemoves(name) ==
    /\ pc = "idle"
    /\ op' = "remove"
    /\ IF name = CA_KEY_FILENAME
       THEN /\ is_file(ca_key_file)
            /\ ca_key_file' = Absent(NoKey)
            /\ UNCHANGED ca_crt_file
       ELSE /\ is_file(ca_crt_file)
            /\ ca_crt_file' = Absent(NoCert)
            /\ UNCHANGED ca_key_file
    /\ UNCHANGED <<server_files, nkeys, now, pc, args, existed, ca_result,
                   crt_result, locals, ca_out>>

\* ------------------------------------------------------------------ Next
Next ==
    \/ \E force \in BOOLEAN, auto_install \in BOOLEAN :
          CreateCaBegin(force, auto_install)
    \/ \E io \in IoOutcomes : CaCreateKey(io)
    \/ CaTemplate
    \/ \E d \in 0..MaxClock : CaSign(d)
    \/ \E io \in IoOutcomes : CaWriteCrt(io)
    \/ \E outcome \in ToolOutcomes : CaInstall(outcome)
    \/ CreateCertificateBegin
    \/ \E io \in IoOutcomes : CrtCreateKey(io)
    \/ CrtTemplate
    \/ \E d \in 0..MaxClock : CrtSign(d)
    \/ \E io \in IoOutcomes : CrtWriteCrt(io)
    \/ \E name \in {CA_KEY_FILENAME, CA_CRT_FILENAME} : OperatorRemoves(name)

Spec == Init /\ [][Next]_vars

\* ---------------------------------------------------------------- claims
\* What the claims call a file that is present but truncated or unparsable.
Unparsable(f) ==
    f.exists /\ ~f.complete

\* The keys a pair of CA files mentions.
KeysOf(pair) ==
    {pair[1].body, pair[2].body.signed_by, pair[2].body.tbs.public_key.n}

\* ca.key and ca.crt hold the key k and a certificate of k self-signed by k.
HoldsCa(kf, cf, k) ==
    /\ kf = private_bytes(k)
    /\ cf.exists /\ cf.complete /\ cf.label = "CERTIFICATE"
    /\ cf.body.tbs.public_key = PublicKey(k)
    /\ cf.body.tbs.subject = cf.body.tbs.issuer
    /\ Verifies(cf.body, PublicKey(k))

\* A server certificate validates against a CA certificate: issuer and
\* subject linked, signature by the CA certificate's key, and the authority
\* key identifier that of the same key.
ChainValid(s, c) ==
    /\ s.tbs.issuer = c.tbs.subject
    /\ Verifies(s, c.tbs.public_key)
    /\ s.tbs.authority_key_identifier = c.tbs.public_key.n

\* C1: a create_ca call without force that finds ca.crt fails with the
\* already-exists error and leaves ca.key and ca.crt as they were, whatever
\* auto_install is.
C1_ExistingCaRefused ==
    [][(pc = "idle" /\ op' = "create_ca" /\ ~args'.force /\ ca_crt_file.exists)
         => (/\ pc' = "idle"
             /\ ca_result' = "OSError_exists"
             /\ UNCHANGED files)]_vars

C1_Witness ==
    /\ pc = "idle" /\ op = "create_ca" /\ ca_result = "OSError_exists"
    /\ args.auto_install
    /\ ca_crt_file.exists /\ ~ca_key_file.exists

\* C2: once a create_ca call with force has returned on a directory that
\* held a CA, ca.key and ca.crt hold a new CA whose key is none of the old
\* ones, and a create_certificate call that returns after it issues a
\* certificate signed by that new key, with the new CA as issuer and
\* authority key identifier.
C2_ForceReplacesCa ==
    (pc = "idle" /\ ca_result = "returned" /\ args.force /\ existed[2].exists)
      => LET k == ca_key_file.body IN
         /\ (op = "create_ca")
              => /\ HoldsCa(ca_key_file, ca_crt_file, k)
                 /\ k \notin KeysOf(existed)
         /\ (op = "create_certificate" /\ crt_result = "returned")
              => /\ HoldsCa(ca_key_file, ca_crt_file, k)
                 /\ k \notin KeysOf(existed)
                 /\ server_crt_file.body.signed_by = k
                 /\ ChainValid(server_crt_file.body, ca_crt_file.body)

C2_Witness ==
    /\ pc = "idle" /\ ca_result = "returned" /\ args.force
    /\ existed[1].complete /\ existed[2].complete
    /\ op = "create_certificate" /\ crt_result = "returned"

\* C3: a create_certificate call that finds ca.key or ca.crt missing fails
\* with the CA-not-found error and leaves server.key and server.crt as they
\* were.
C3_MissingCaRefused ==
    [][(pc = "idle" /\ op' = "create_certificate"
          /\ (~ca_key_file.exists \/ ~ca_crt_file.exists))
         => (/\ pc' = "idle"
             /\ crt_result' = "RuntimeError_ca_not_found"
             /\ UNCHANGED server_files)]_vars

C3_Witness ==
    /\ pc = "idle" /\ op = "create_certificate"
    /\ crt_result = "RuntimeError_ca_not_found"
    /\ ca_crt_file.exists /\ ~ca_key_file.exists
    /\ server_key_file.exists /\ server_crt_file.exists

\* C4: every server certificate a create_certificate call produces validates
\* against the CA certificate in ca.crt at the time of issuance.
C4_ChainValid ==
    (pc = "idle" /\ op = "create_certificate" /\ crt_result = "returned")
      => ChainValid(server_crt_file.body, ca_crt_file.body)

\* C5: after a create_ca call that wrote ca.key and failed before ca.crt was
\* written, the next create_certificate call fails and issues nothing.
C5_HalfCreatedCaRefused ==
    [][(pc = "idle" /\ op = "create_ca"
          /\ ca_result \in {"OSError_ca_crt_open", "OSError_ca_crt_write"}
          /\ op' = "create_certificate")
         => (/\ pc' = "idle"
             /\ crt_result' # "running"
             /\ UNCHANGED server_files)]_vars

\* C6: when auto_install is requested and the tool fails in any way,
\* create_ca still returns, the CA stays persisted and the manual
\* instructions are printed; the success message needs exit status zero.
C6_InstallNeverFatal ==
    (pc = "idle" /\ op = "create_ca" /\ args.auto_install)
      => /\ (tool \notin {"not_run", "exit_zero"})
              => /\ ca_result = "returned"
                 /\ HoldsCa(ca_key_file, ca_crt_file, ca_key_file.body)
                 /\ "manual" \in printed
         /\ ("success" \in printed) => tool = "exit_zero"

\* C7: a create_certificate call that finds both CA files, one of them
\* truncated or unparsable, ends with the load error at once and leaves
\* server.key and server.crt as they were.
C7_UnparsableCaRefused ==
    [][(pc = "idle" /\ op' = "create_certificate"
          /\ ca_key_file.exists /\ ca_crt_file.exists
          /\ (Unparsable(ca_key_file) \/ Unparsable(ca_crt_file)))
         => (/\ pc' = "idle"
             /\ crt_result' \in {"ValueError_ca_key", "ValueError_ca_crt"}
             /\ UNCHANGED server_files)]_vars

C7_Witness ==
    /\ pc = "idle" /\ op = "create_certificate"
    /\ crt_result = "ValueError_ca_crt"
    /\ Unparsable(ca_crt_file) /\ ~Unparsable(ca_key_file)
    /\ server_crt_file.exists

\* The step of create_ca that writes ca.crt.
C8_WriteStep ==
    (pc = "ca_write_crt" /\ ca_crt_file' # ca_crt_file)
      => /\ op = "create_ca"
         /\ key = nkeys /\ key \notin KeysOf(existed) /\ key # NoKey
         /\ ca_key_file = private_bytes(key)
         /\ ca_crt_file'.complete => HoldsCa(ca_key_file', ca_crt_file', key)

C8_Returned ==
    (pc = "idle" /\ op = "create_ca" /\ ca_result = "returned")
      => HoldsCa(ca_key_file, ca_crt_file, nkeys)

\* C8: whenever create_ca writes ca.crt, the same call has generated a key
\* no earlier call had and written it to ca.key, and what it writes is a
\* certificate of that key, self-signed, subject equal to issuer; after a
\* create_ca call that returns, ca.key and ca.crt are one key pair.
C8_CaKeyBeforeCaCrt ==
    [][C8_WriteStep]_vars /\ []C8_Returned

C8_Witness ==
    /\ pc = "idle" /\ op = "create_ca" /\ ca_result = "returned"
    /\ args.force /\ existed[1].complete /\ existed[2].complete

\* The validity length the claims give a certificate, in seconds.
ValidityLength(is_ca) ==
    IF is_ca THEN 10 * 365 * 86400 ELSE 7 * 86400

Built ==
    pc \in {"ca_write_crt", "crt_write_crt"}

\* C9 as stated: a built certificate has not_before equal to the build time
\* and not_after equal to not_before plus 10 years (CA) or 7 days (server),
\* and its CA flag is is_ca.
C9_ExactValidity ==
    Built
      => /\ cert.tbs.not_valid_before = now
         /\ cert.tbs.not_valid_after =
               cert.tbs.not_valid_before + ValidityLength(pc = "ca_write_crt")
         /\ cert.tbs.basic_constraints_ca = (pc = "ca_write_crt")

\* C9 as amended: not_after is the builder's first clock read plus 10 years
\* (CA) or 7 days (server), not_before is its second clock read, so the
\* validity length is at most 10 years or 7 days, short by what the clock
\* advanced between the two reads; the CA flag is is_ca.
C9_ValidityFromTwoReads ==
    /\ (pc \in {"ca_sign", "crt_sign"})
         => not_valid_after = now + ValidityLength(pc = "ca_sign")
    /\ Built
         => /\ cert.tbs.not_valid_before = now
            /\ cert.tbs.not_valid_after = not_valid_after
            /\ cert.tbs.not_valid_after
                  <= cert.tbs.not_valid_before
                       + ValidityLength(pc = "ca_write_crt")
            /\ cert.tbs.not_valid_after
                  >= cert.tbs.not_valid_before
                       + ValidityLength(pc = "ca_write_crt") - MaxClock
            /\ cert.tbs.basic_constraints_ca = (pc = "ca_write_crt")

C9_Witness ==
    /\ pc = "ca_write_crt"
    /\ cert.tbs.not_valid_after < cert.tbs.not_valid_before + ValidityLength(TRUE)

\* After a create_certificate call that returns, server.key holds the key
\* this call generated and server.crt a certificate of that key.
C10_Returned ==
    (pc = "idle" /\ op = "create_certificate" /\ crt_result = "returned")
      => /\ server_key_file = private_bytes(nkeys)
         /\ server_crt_file.complete
         /\ server_crt_file.body.tbs.public_key = PublicKey(nkeys)

\* C10 as stated: server.key and server.crt match and are fresh after a call
\* that returns, and a call that fails after the key write leaves the new
\* server.key beside the previous server.crt (or none).
C10_FreshPairOrPreviousCrt ==
    /\ []C10_Returned
    /\ [][(pc = "crt_write_crt" /\ crt_result' # "returned")
            => /\ server_key_file' = private_bytes(nkeys)
               /\ server_crt_file' = server_crt_file]_vars

\* C10 as amended: the same, but a call that fails while writing server.crt
\* leaves the new server.key beside a truncated server.crt; only a call that
\* fails before server.crt is opened leaves the previous server.crt (or none).
C10_FreshPairOrStaleCrt ==
    /\ []C10_Returned
    /\ [][(pc = "crt_write_crt" /\ crt_result' # "returned")
            => /\ server_key_file' = private_bytes(nkeys)
               /\ (crt_result' = "OSError_server_crt_open")
                    => server_crt_file' = server_crt_file
               /\ (crt_result' = "OSError_server_crt_write")
                    => Unparsable(server_crt_file')]_vars

C10_Witness ==
    /\ pc = "idle" /\ op = "create_certificate"
    /\ crt_result = "OSError_server_crt_open"
    /\ server_key_file = private_bytes(nkeys)
    /\ server_crt_file.complete
    /\ server_crt_file.body.tbs.public_key # PublicKey(nkeys)

====
